---- MODULE Spec2Model ----
(***************************************************************************)
(* Model of two components of eksctl:                                      *)
(*   - pkg/actions/label: the label Manager (Get / Set / Unset) that goes  *)
(*     to the nodegroup stack service first and falls back to the EKS API  *)
(*     when the stack does not exist;                                      *)
(*   - pkg/az: GetAvailabilityZones / SetLocalZones, which filter the      *)
(*     zones returned by EC2 and pick a random subset.                     *)
(* One invocation is in flight at a time: the operations are synchronous   *)
(* and share no state, so an invocation starts from pc = "idle", runs to   *)
(* pc = "done" and is then returned to the caller.                         *)
(***************************************************************************)
EXTENDS Integers, Sequences, FiniteSets, TLC

(* ---------------------------- bounds ----------------------------------- *)
\* longest zone list the EC2 API returns in the model
MaxZones == 4
\* longest list of requested local zones
MaxLocal == 2
\* deepest chain of wrapping layers around an error
MaxWrap == 2

(* --------------------------- constants --------------------------------- *)
MinRequiredAvailabilityZones == 2
RecommendedAvailabilityZones == 3
RegionUSEast1 == "us-east-1"
RegionCNNorth1 == "cn-north-1"
Regions == {"us-west-1", RegionUSEast1, RegionCNNorth1}

\* var zoneIDsToAvoid: region -> zone ids that are never used
zoneIDsToAvoid == [r \in Regions |-> IF r = RegionCNNorth1 THEN <<"cnn1-az4">> ELSE <<>>]

(* ------------------------- generic helpers ----------------------------- *)
Range(s) == {s[i] : i \in 1..Len(s)}
\* strings.Contains(list, item)
Contains(list, item) == \E i \in 1..Len(list) : list[i] = item
\* sequences without repetition over S, of length at most n
DistinctSeqs(S, n) ==
  UNION {{s \in [1..k -> S] : \A i, j \in 1..k : i # j => s[i] # s[j]} : k \in 0..n}
\* all sequences over S of length at most n
SeqsUpTo(S, n) == UNION {[1..k -> S] : k \in 0..n}
\* mutant: indices drawn independently, so one may come twice
PermsRepeating(n) == [1..n -> 1..n]
\* rand.Perm(n): a permutation of 0..n-1, here as the 1-based indices 1..n
Perms(n) == {p \in [1..n -> 1..n] : \A i, j \in 1..n : i # j => p[i] # p[j]}

(* ------------------------------ errors --------------------------------- *)
NoErr == [kind |-> "nil"]
\* An error of a collaborator is a chain of wrapping layers ending in its
\* root cause: <<"wrap", "wrap", "ValidationError">>.
ErrorClasses == {"ValidationError", "AccessDenied", "something-terrible"}
CollabErrors ==
  {[kind |-> "chain", chain |-> w \o <<c>>] : w \in SeqsUpTo({"wrap"}, MaxWrap), c \in ErrorClasses}
EKSErrors == {[kind |-> "chain", chain |-> <<"oh-noes">>]}
EC2Errors == {[kind |-> "chain", chain |-> <<"foo">>]}

RECURSIVE Unwrapped(_)
\* errors.Unwrap repeated down to the root cause
Unwrapped(chain) == IF Len(chain) <= 1 THEN chain ELSE Unwrapped(Tail(chain))

\* mutant: only the outermost layer is inspected
IsValidationErrorShallow(err) == err.kind = "chain" /\ Head(err.chain) = "ValidationError"
\* mutant: every error is taken for "the stack does not exist"
IsValidationErrorAny(err) == err.kind = "chain"
\* the fallback-triggering classification of a stack service error
IsValidationError(err) == err.kind = "chain" /\ Unwrapped(err.chain) = <<"ValidationError">>

(* ------------------------------ labels --------------------------------- *)
ClusterNames == {"foo"}
NodegroupNames == {"bar", "ng2"}
Keys == {"k1", "k2"}
Values == {"v1", "v2"}
\* map[string]string
TagSets == UNION {[D -> Values] : D \in SUBSET Keys}
\* aws.String(v): a non-nil *string
AwsString(v) == [ptr |-> v]
\* map[string]*string as the EKS API holds labels
EKSLabelMaps == UNION {[D -> {AwsString(v) : v \in Values}] : D \in SUBSET Keys}
\* lists of keys handed to Unset
KeyLists == DistinctSeqs(Keys, Cardinality(Keys))

\* mutant: the conversion keeps the keys but loses the values
FromEKSLabelsBlank(m) == [k \in DOMAIN m |-> "v1"]
\* map[string]*string -> map[string]string
FromEKSLabels(m) == [k \in DOMAIN m |-> m[k].ptr]
\* map[string]string -> map[string]*string
ToEKSLabels(m) == [k \in DOMAIN m |-> AwsString(m[k])]
\* []string -> []*string
ToEKSKeys(ks) == [i \in 1..Len(ks) |-> AwsString(ks[i])]

NilSummary == [isNil |-> TRUE, val |-> <<>>]
Summary(s) == [isNil |-> FALSE, val |-> s]
NilStrings == [isNil |-> TRUE, val |-> <<>>]
Strings(s) == [isNil |-> FALSE, val |-> s]

VARIABLES
  pc,            \* position of the invocation in flight
  opName,        \* operation in flight, "none" when idle
  clusterName,   \* Manager.clusterName, set by label.New
  nodeGroupName, \* argument of Get/Set/Unset
  labels,        \* argument of Set (a TagSet)
  keys,          \* argument of Unset (a list of keys)
  calls,         \* calls made to the collaborators by this invocation, in order
  retSummary,    \* summary returned by Get
  retErr,        \* error returned by the operation
  region,        \* argument of GetAvailabilityZones / SetLocalZones
  cfg,           \* the caller's *api.ClusterConfig handed to SetLocalZones
  cfgIn,         \* cfg as it was when SetLocalZones was called
  availableZones,     \* randomSelectionOfZones: the filtered zone names
  desiredNumberOfAZs, \* randomSelectionOfZones: target count
  zones,         \* randomSelectionOfZones: zones picked so far
  perm,          \* randomSelectionOfZones: the permutation being ranged over
  permIdx,       \* position in perm
  permCount,     \* permutations drawn by this invocation
  retZones       \* zone list returned by GetAvailabilityZones

lvars == <<clusterName, nodeGroupName, labels, keys, retSummary>>
zvars == <<region, cfg, cfgIn, availableZones, desiredNumberOfAZs, zones, perm, permIdx,
           permCount, retZones>>
selvars == <<availableZones, desiredNumberOfAZs, zones, perm, permIdx, permCount>>
vars == <<pc, opName, calls, retErr, lvars, zvars>>

(* ------------------------ collaborator calls --------------------------- *)
StackGetLabels(ng, out, err) ==
  [api |-> "Service.GetLabels", nodeGroupName |-> ng, out |-> out, err |-> err]
StackUpdateLabels(ng, add, remove, err) ==
  [api |-> "Service.UpdateLabels", nodeGroupName |-> ng, addOrUpdate |-> add, remove |-> remove, err |-> err]
DescribeNodegroup(cn, ng, out, err) ==
  [api |-> "EKS.DescribeNodegroup", ClusterName |-> cn, NodegroupName |-> ng, out |-> out, err |-> err]
UpdateNodegroupConfig(cn, ng, add, remove, err) ==
  [api |-> "EKS.UpdateNodegroupConfig", ClusterName |-> cn, NodegroupName |-> ng,
   AddOrUpdateLabels |-> add, RemoveLabels |-> remove, err |-> err]

StackResponses == {NoErr} \cup CollabErrors
EKSResponses == {NoErr} \cup EKSErrors

LabelInit ==
  /\ pc = "idle"
  /\ opName = "none"
  /\ clusterName \in ClusterNames
  /\ nodeGroupName = ""
  /\ labels = <<>>
  /\ keys = <<>>
  /\ calls = <<>>
  /\ retSummary = NilSummary
  /\ retErr = NoErr

(* ------------------------------- zones --------------------------------- *)
\* ec2.AvailabilityZone: a name and an id
AZ(name, id) == [ZoneName |-> name, ZoneId |-> id]
\* the zones EC2 knows; zone5 carries the id avoided in cn-north-1
AllZones ==
  {AZ("zone1", "id-zone1"), AZ("zone2", "id-zone2"), AZ("zone3", "id-zone3"),
   AZ("zone4", "id-zone4"), AZ("zone5", "cnn1-az4")}
ZoneNames == {z.ZoneName : z \in AllZones}
\* Output.AvailabilityZones of a describe call: no zone twice
ZoneLists == DistinctSeqs(AllZones, MaxZones)
EC2Responses == {NoErr} \cup EC2Errors

\* makeFilter(name, value)
makeFilter(name, value) == [Name |-> name, Values |-> <<value>>]

\* mutant: the denylist is compared with the zone name
filterZonesByName(r, zs) ==
  LET F[i \in 0..Len(zs)] ==
        IF i = 0 THEN <<>>
        ELSE IF ~Contains(zoneIDsToAvoid[r], zs[i].ZoneName)
               THEN Append(F[i - 1], zs[i].ZoneName)
               ELSE F[i - 1]
  IN F[Len(zs)]
\* mutant: the filtered list is built back to front
filterZonesReversed(r, zs) ==
  LET F[i \in 0..Len(zs)] ==
        IF i = 0 THEN <<>>
        ELSE IF ~Contains(zoneIDsToAvoid[r], zs[i].ZoneId)
               THEN <<zs[i].ZoneName>> \o F[i - 1]
               ELSE F[i - 1]
  IN F[Len(zs)]
\* filterZones(region, zones): the names of the zones whose id is not avoided
filterZones(r, zs) ==
  LET F[i \in 0..Len(zs)] ==
        IF i = 0 THEN <<>>
        ELSE IF ~Contains(zoneIDsToAvoid[r], zs[i].ZoneId)
               THEN Append(F[i - 1], zs[i].ZoneName)
               ELSE F[i - 1]
  IN F[Len(zs)]

\* the describe call of getAvailabilityZones
DescribeAvailabilityZones(r, out, err) ==
  [api |-> "EC2.DescribeAvailabilityZones", ZoneNames |-> <<>>,
   Filters |-> <<makeFilter("region-name", r), makeFilter("state", "available")>>,
   out |-> out, err |-> err]
\* the describe call of SetLocalZones
DescribeLocalZones(r, names, out, err) ==
  [api |-> "EC2.DescribeAvailabilityZones", ZoneNames |-> names,
   Filters |-> <<makeFilter("region-name", r), makeFilter("zone-type", "local-zone"),
                 makeFilter("state", "available")>>,
   out |-> out, err |-> err]

\* api.ClusterConfig: the fields SetLocalZones reads or writes
ClusterConfig(lz, vpc) == [LocalZones |-> lz, VPCID |-> vpc]
NoConfig == ClusterConfig(<<>>, "")
VPCIDs == {"", "vpc-1"}
ClusterConfigs == {ClusterConfig(lz, v) : lz \in SeqsUpTo(ZoneNames, MaxLocal), v \in VPCIDs}
\* what EC2 answers when asked for zones by name: zones carrying these names
LocalZoneLists(names) ==
  DistinctSeqs({z \in AllZones : z.ZoneName \in Range(names)}, MaxLocal)

\* fmt.Errorf("error getting availability zones for region %s: %w", region, err)
ZoneQueryError(r, err) == [kind |-> "getAZError", region |-> r, cause |-> err]
\* fmt.Errorf("only %d zones discovered %v, at least %d are required", ...)
TooFewZonesError(n, zs, min) == [kind |-> "tooFewZones", discovered |-> n, zones |-> zs, required |-> min]
\* mutant: the cause is formatted into the message, not wrapped
LocalZoneErrorFlat(lz, err) == [kind |-> "localZoneError", zones |-> lz, cause |-> NoErr]
\* fmt.Errorf("error validating local zone(s) %s: %w", spec.LocalZones, err)
LocalZoneError(lz, err) == [kind |-> "localZoneError", zones |-> lz, cause |-> err]

ZoneInit ==
  /\ region = ""
  /\ cfg = NoConfig
  /\ cfgIn = NoConfig
  /\ availableZones = <<>>
  /\ desiredNumberOfAZs = 0
  /\ zones = <<>>
  /\ perm = <<>>
  /\ permIdx = 0
  /\ permCount = 0
  /\ retZones = NilStrings

\* mutant: the degraded region is not special-cased
DesiredNumberOfAZsFlat(r) == RecommendedAvailabilityZones
\* randomSelectionOfZones: desiredNumberOfAZs
DesiredNumberOfAZs(r) ==
  IF r = RegionUSEast1 THEN MinRequiredAvailabilityZones ELSE RecommendedAvailabilityZones

\* mutant: a single zone is accepted
MinZonesLow == MinRequiredAvailabilityZones - 1
\* the threshold GetAvailabilityZones fails under
MinZones == MinRequiredAvailabilityZones

\* mutant: the selection is entered as soon as the minimum is met
SamplingThresholdLow == MinRequiredAvailabilityZones
\* the count from which GetAvailabilityZones selects at random
SamplingThreshold == RecommendedAvailabilityZones

\* mutant: the zones found are handed back together with the too-few error
GetAvailabilityZonesPartial(r, out, err) ==
  /\ pc = "idle"
  /\ opName' = "GetAvailabilityZones"
  /\ region' = r
  /\ calls' = <<DescribeAvailabilityZones(r, IF err = NoErr THEN out ELSE <<>>, err)>>
  /\ IF err # NoErr
       THEN /\ retZones' = NilStrings
            /\ retErr' = ZoneQueryError(r, err)
            /\ pc' = "done"
            /\ UNCHANGED selvars
       ELSE LET zs == filterZones(r, out)
                numberOfZones == Len(zs)
            IN IF numberOfZones < MinZones
                 THEN /\ retZones' = Strings(zs)
                      /\ retErr' = TooFewZonesError(numberOfZones, zs, MinRequiredAvailabilityZones)
                      /\ pc' = "done"
                      /\ UNCHANGED selvars
                 ELSE IF numberOfZones < SamplingThreshold
                   THEN /\ retZones' = Strings(zs)
                        /\ retErr' = NoErr
                        /\ pc' = "done"
                        /\ UNCHANGED selvars
                   ELSE /\ availableZones' = zs
                        /\ desiredNumberOfAZs' = DesiredNumberOfAZs(r)
                        /\ zones' = <<>>
                        /\ pc' = "randomSelectionOfZones"
                        /\ UNCHANGED <<retZones, retErr, perm, permIdx, permCount>>
  /\ UNCHANGED <<cfg, cfgIn, lvars>>

\* GetAvailabilityZones up to the call of randomSelectionOfZones
GetAvailabilityZones(r, out, err) ==
  /\ pc = "idle"
  /\ opName' = "GetAvailabilityZones"
  /\ region' = r
  /\ calls' = <<DescribeAvailabilityZones(r, IF err = NoErr THEN out ELSE <<>>, err)>>
  /\ IF err # NoErr
       THEN /\ retZones' = NilStrings
            /\ retErr' = ZoneQueryError(r, err)
            /\ pc' = "done"
            /\ UNCHANGED selvars
       ELSE LET zs == filterZones(r, out)
                numberOfZones == Len(zs)
            IN IF numberOfZones < MinZones
                 THEN /\ retZones' = NilStrings
                      /\ retErr' = TooFewZonesError(numberOfZones, zs, MinRequiredAvailabilityZones)
                      /\ pc' = "done"
                      /\ UNCHANGED selvars
                 ELSE IF numberOfZones < SamplingThreshold
                   THEN /\ retZones' = Strings(zs)
                        /\ retErr' = NoErr
                        /\ pc' = "done"
                        /\ UNCHANGED selvars
                   ELSE /\ availableZones' = zs
                        /\ desiredNumberOfAZs' = DesiredNumberOfAZs(r)
                        /\ zones' = <<>>
                        /\ pc' = "randomSelectionOfZones"
                        /\ UNCHANGED <<retZones, retErr, perm, permIdx, permCount>>
  /\ UNCHANGED <<cfg, cfgIn, lvars>>

\* randomSelectionOfZones, loop head: too few zones yet, draw rand.Perm
NewPerm(p) ==
  /\ pc = "randomSelectionOfZones"
  /\ Len(zones) < desiredNumberOfAZs
  /\ perm' = p
  /\ permIdx' = 1
  /\ permCount' = permCount + 1
  /\ pc' = IF Len(p) = 0 THEN "randomSelectionOfZones" ELSE "range"
  /\ UNCHANGED <<opName, calls, retErr, retZones, region, cfg, cfgIn, lvars,
                 availableZones, desiredNumberOfAZs, zones>>

\* randomSelectionOfZones, one iteration of the range over the permutation
AppendZone ==
  /\ pc = "range"
  /\ zones' = Append(zones, availableZones[perm[permIdx]])
  /\ IF Len(zones') = desiredNumberOfAZs \/ permIdx = Len(perm)
       THEN /\ pc' = "randomSelectionOfZones"
            /\ UNCHANGED permIdx
       ELSE /\ permIdx' = permIdx + 1
            /\ UNCHANGED pc
  /\ UNCHANGED <<opName, calls, retErr, retZones, region, cfg, cfgIn, lvars,
                 availableZones, desiredNumberOfAZs, perm, permCount>>

\* randomSelectionOfZones returns and GetAvailabilityZones with it
SelectionDone ==
  /\ pc = "randomSelectionOfZones"
  /\ ~(Len(zones) < desiredNumberOfAZs)
  /\ retZones' = Strings(zones)
  /\ retErr' = NoErr
  /\ pc' = "done"
  /\ UNCHANGED <<opName, calls, region, cfg, cfgIn, lvars, selvars>>

\* mutant: the early return is missing
NoLocalZonesNever(c) == FALSE
\* SetLocalZones: len(spec.LocalZones) == 0
NoLocalZones(c) == Len(c.LocalZones) = 0

\* SetLocalZones(spec, ec2Api, region)
SetLocalZones(c, r, out, err) ==
  /\ pc = "idle"
  /\ opName' = "SetLocalZones"
  /\ region' = r
  /\ cfgIn' = c
  /\ IF NoLocalZones(c)
       THEN /\ cfg' = c
            /\ calls' = <<>>
            /\ retErr' = NoErr
       ELSE /\ calls' = <<DescribeLocalZones(r, c.LocalZones, IF err = NoErr THEN out ELSE <<>>, err)>>
            /\ IF err # NoErr
                 THEN /\ cfg' = c
                      /\ retErr' = LocalZoneError(c.LocalZones, err)
                 ELSE /\ cfg' = [c EXCEPT !.LocalZones = filterZones(r, out)]
                      /\ retErr' = NoErr
  /\ pc' = "done"
  /\ UNCHANGED <<retZones, lvars, selvars>>

(* ------------------------------- Get ----------------------------------- *)
\* Manager.Get up to the answer of the stack service
Get(ng, out, err) ==
  /\ pc = "idle"
  /\ opName' = "Get"
  /\ nodeGroupName' = ng
  /\ calls' = <<StackGetLabels(ng, IF err = NoErr THEN out ELSE <<>>, err)>>
  /\ IF err = NoErr
       THEN /\ retSummary' = Summary(<<[Cluster |-> clusterName, NodeGroup |-> ng, Labels |-> out]>>)
            /\ retErr' = NoErr
            /\ pc' = "done"
       ELSE IF IsValidationError(err)
         THEN /\ pc' = "getLabelsFromEKS"
              /\ UNCHANGED <<retSummary, retErr>>
         ELSE /\ retSummary' = NilSummary
              /\ retErr' = err
              /\ pc' = "done"
  /\ UNCHANGED <<clusterName, labels, keys>>
  /\ UNCHANGED zvars

\* Manager.Get, the nodegroup is not owned by eksctl: describe it through EKS
GetFromEKS(out, err) ==
  /\ pc = "getLabelsFromEKS"
  /\ calls' = Append(calls, DescribeNodegroup(clusterName, nodeGroupName,
                                              IF err = NoErr THEN out ELSE <<>>, err))
  /\ IF err = NoErr
       THEN /\ retSummary' = Summary(<<[Cluster |-> clusterName, NodeGroup |-> nodeGroupName,
                                       Labels |-> FromEKSLabels(out)]>>)
            /\ retErr' = NoErr
       ELSE /\ retSummary' = NilSummary
            /\ retErr' = err
  /\ pc' = "done"
  /\ UNCHANGED <<opName, clusterName, nodeGroupName, labels, keys>>
  /\ UNCHANGED zvars

(* ------------------------------- Set ----------------------------------- *)
\* mutant: Set goes to the EKS API whatever the stack service answered
SetAlways(ng, l, err) ==
  /\ pc = "idle"
  /\ opName' = "Set"
  /\ nodeGroupName' = ng
  /\ labels' = l
  /\ calls' = <<StackUpdateLabels(ng, l, <<>>, err)>>
  /\ pc' = "setLabelsEKS"
  /\ UNCHANGED <<clusterName, keys, retSummary, retErr>>
  /\ UNCHANGED zvars

\* Manager.Set up to the answer of the stack service
Set(ng, l, err) ==
  /\ pc = "idle"
  /\ opName' = "Set"
  /\ nodeGroupName' = ng
  /\ labels' = l
  /\ calls' = <<StackUpdateLabels(ng, l, <<>>, err)>>
  /\ IF err = NoErr
       THEN /\ retErr' = NoErr
            /\ pc' = "done"
       ELSE IF IsValidationError(err)
         THEN /\ pc' = "setLabelsEKS"
              /\ UNCHANGED retErr
         ELSE /\ retErr' = err
              /\ pc' = "done"
  /\ UNCHANGED <<clusterName, keys, retSummary>>
  /\ UNCHANGED zvars

\* Manager.Set, the nodegroup is not owned by eksctl: update it through EKS
SetThroughEKS(err) ==
  /\ pc = "setLabelsEKS"
  /\ calls' = Append(calls, UpdateNodegroupConfig(clusterName, nodeGroupName,
                                                  ToEKSLabels(labels), <<>>, err))
  /\ retErr' = err
  /\ pc' = "done"
  /\ UNCHANGED <<opName, clusterName, nodeGroupName, labels, keys, retSummary>>
  /\ UNCHANGED zvars

(* ------------------------------ Unset ---------------------------------- *)
\* Manager.Unset up to the answer of the stack service
Unset(ng, ks, err) ==
  /\ pc = "idle"
  /\ opName' = "Unset"
  /\ nodeGroupName' = ng
  /\ keys' = ks
  /\ calls' = <<StackUpdateLabels(ng, <<>>, ks, err)>>
  /\ IF err = NoErr
       THEN /\ retErr' = NoErr
            /\ pc' = "done"
       ELSE IF IsValidationError(err)
         THEN /\ pc' = "unsetLabelsEKS"
              /\ UNCHANGED retErr
         ELSE /\ retErr' = err
              /\ pc' = "done"
  /\ UNCHANGED <<clusterName, labels, retSummary>>
  /\ UNCHANGED zvars

\* Manager.Unset, the nodegroup is not owned by eksctl: update it through EKS
UnsetThroughEKS(err) ==
  /\ pc = "unsetLabelsEKS"
  /\ calls' = Append(calls, UpdateNodegroupConfig(clusterName, nodeGroupName,
                                                  <<>>, ToEKSKeys(keys), err))
  /\ retErr' = err
  /\ pc' = "done"
  /\ UNCHANGED <<opName, clusterName, nodeGroupName, labels, keys, retSummary>>
  /\ UNCHANGED zvars

\* the operation has returned; the caller may start the next one
Return ==
  /\ pc = "done"
  /\ pc' = "idle"
  /\ opName' = "none"
  /\ nodeGroupName' = ""
  /\ labels' = <<>>
  /\ keys' = <<>>
  /\ calls' = <<>>
  /\ retSummary' = NilSummary
  /\ retErr' = NoErr
  /\ region' = ""
  /\ cfg' = NoConfig
  /\ cfgIn' = NoConfig
  /\ availableZones' = <<>>
  /\ desiredNumberOfAZs' = 0
  /\ zones' = <<>>
  /\ perm' = <<>>
  /\ permIdx' = 0
  /\ permCount' = 0
  /\ retZones' = NilStrings
  /\ UNCHANGED clusterName

Init == LabelInit /\ ZoneInit

Next ==
  \/ pc = "idle" /\ \E ng \in NodegroupNames, out \in TagSets, err \in StackResponses : Get(ng, out, err)
  \/ pc = "getLabelsFromEKS" /\ \E out \in EKSLabelMaps, err \in EKSResponses : GetFromEKS(out, err)
  \/ pc = "idle" /\ \E ng \in NodegroupNames, l \in TagSets, err \in StackResponses : Set(ng, l, err)
  \/ \E err \in EKSResponses : SetThroughEKS(err)
  \/ pc = "idle" /\ \E ng \in NodegroupNames, ks \in KeyLists, err \in StackResponses : Unset(ng, ks, err)
  \/ \E err \in EKSResponses : UnsetThroughEKS(err)
  \/ pc = "idle" /\ \E r \in Regions, out \in ZoneLists, err \in EC2Responses :
       GetAvailabilityZones(r, out, err)
  \/ pc = "randomSelectionOfZones" /\ Len(zones) < desiredNumberOfAZs
       /\ \E p \in Perms(Len(availableZones)) : NewPerm(p)
  \/ AppendZone
  \/ SelectionDone
  \/ pc = "idle" /\ \E c \in ClusterConfigs, r \in Regions, err \in EC2Responses :
       \E out \in LocalZoneLists(c.LocalZones) : SetLocalZones(c, r, out, err)
  \/ Return

Spec == Init /\ [][Next]_vars

\* a step of randomSelectionOfZones
SelectionStep ==
  \/ pc = "randomSelectionOfZones" /\ Len(zones) < desiredNumberOfAZs
       /\ \E p \in Perms(Len(availableZones)) : NewPerm(p)
  \/ AppendZone
  \/ SelectionDone
\* randomSelectionOfZones runs without waiting for anything: once entered,
\* its next step is always taken
FairSpec == Init /\ [][Next]_vars /\ WF_vars(SelectionStep)
(* ======================= properties: label Manager ====================== *)
LabelOps == {"Get", "Set", "Unset"}
EKSApis == {"EKS.DescribeNodegroup", "EKS.UpdateNodegroupConfig"}
\* the innermost error of a chain, the one every wrapping layer leads to
RootCause(err) == err.chain[Len(err.chain)]
\* the stack service call of the invocation in flight failed with err-class c
StackFailed == opName \in LabelOps /\ Len(calls) >= 1 /\ calls[1].err # NoErr
StackFailedValidation == StackFailed /\ RootCause(calls[1].err) = "ValidationError"
StackFailedHard == StackFailed /\ RootCause(calls[1].err) # "ValidationError"

\* C1: when the stack service fails with an error whose root cause is not a
\* validation error, Get/Set/Unset never call the EKS API and return that very
\* error (Get with a nil summary).
C1_HardFailureNoFallback ==
  StackFailedHard =>
    /\ \A i \in 1..Len(calls) : calls[i].api \notin EKSApis
    /\ pc = "done"
    /\ retErr = calls[1].err
    /\ opName = "Get" => retSummary = NilSummary

C1_Witness ==
  /\ pc = "done"
  /\ opName = "Get"
  /\ Len(calls) = 1
  /\ calls[1].err = [kind |-> "chain", chain |-> <<"wrap", "AccessDenied">>]
  /\ retErr = calls[1].err

IsWrite(c) == c.api \in {"Service.UpdateLabels", "EKS.UpdateNodegroupConfig"}
C3_State ==
  opName \in {"Set", "Unset"} =>
    /\ Len(calls) <= 2
    /\ Cardinality({i \in 1..Len(calls) : IsWrite(calls[i]) /\ calls[i].err = NoErr}) <= 1
    /\ (Len(calls) >= 1 /\ calls[1].err = NoErr) =>
         \A i \in 1..Len(calls) : calls[i].api # "EKS.UpdateNodegroupConfig"
    /\ \A i \in 1..Len(calls) :
         calls[i].api = "EKS.UpdateNodegroupConfig" =>
           /\ i = 2
           /\ calls[1].api = "Service.UpdateLabels"
           /\ calls[1].err # NoErr
           /\ RootCause(calls[1].err) = "ValidationError"
           /\ calls[i].err # NoErr => i = Len(calls)
\* a failed EKS update is in the log of the invocation in flight
EKSUpdateFailed ==
  \E i \in 1..Len(calls) : calls[i].api = "EKS.UpdateNodegroupConfig" /\ calls[i].err # NoErr
C3_Step ==
  /\ (opName \in {"Set", "Unset"} /\ calls # <<>> /\ calls' # <<>>) =>
       \* the log of one invocation only grows
       /\ Len(calls') >= Len(calls)
       /\ SubSeq(calls', 1, Len(calls)) = calls
  /\ EKSUpdateFailed => (calls' = calls \/ calls' = <<>>)

\* C3: one invocation of Set or Unset writes to at most one backend: after a
\* successful stack service update the EKS update is never sent, the EKS
\* update is sent only after the stack service call of that invocation failed
\* with a validation error, and after a failed EKS update the invocation makes
\* no further call.
C3_OneBackendPerCall == []C3_State /\ [][C3_Step]_vars

C3_Witness ==
  /\ pc = "done"
  /\ opName = "Unset"
  /\ Len(calls) = 2
  /\ calls[1].err # NoErr
  /\ calls[2].api = "EKS.UpdateNodegroupConfig"
  /\ calls[2].err # NoErr
  /\ retErr = calls[2].err

(* ========================= properties: zones ============================ *)
\* the describe call of the invocation in flight succeeded
ZoneQueryOk == Len(calls) = 1 /\ calls[1].err = NoErr
ZoneQueryFailed == Len(calls) = 1 /\ calls[1].err # NoErr
\* zone z is on the denylist of region r
Denylisted(r, z) == z.ZoneId \in Range(zoneIDsToAvoid[r])
\* the names of the zones of out that are not denylisted in r, in the order of out
KeptNames(r, out) ==
  LET Ok(z) == ~Denylisted(r, z)
      kept == SelectSeq(out, Ok)
  IN [i \in 1..Len(kept) |-> kept[i].ZoneName]
NoRepeats(s) == \A i, j \in 1..Len(s) : i # j => s[i] # s[j]
SelectZonesDone == opName = "GetAvailabilityZones" /\ pc = "done"
LocalZonesDone == opName = "SetLocalZones" /\ pc = "done"

\* C4: a zone returned by EC2 whose id is on the denylist of the region is
\* neither among the zones GetAvailabilityZones returns nor in the LocalZones
\* that SetLocalZones writes, also when it was asked for by name.
C4_NoDenylistedZone ==
  /\ (SelectZonesDone /\ retErr = NoErr) =>
       \A i \in 1..Len(calls[1].out) :
         Denylisted(region, calls[1].out[i]) =>
           calls[1].out[i].ZoneName \notin Range(retZones.val)
  /\ (LocalZonesDone /\ ZoneQueryOk) =>
       \A i \in 1..Len(calls[1].out) :
         Denylisted(region, calls[1].out[i]) =>
           calls[1].out[i].ZoneName \notin Range(cfg.LocalZones)
  /\ pc \in {"randomSelectionOfZones", "range"} =>
       \A i \in 1..Len(calls[1].out) :
         Denylisted(region, calls[1].out[i]) =>
           calls[1].out[i].ZoneName \notin Range(zones)

C4_Witness ==
  /\ SelectZonesDone
  /\ region = RegionCNNorth1
  /\ retErr = NoErr
  /\ permCount = 1
  /\ Len(calls[1].out) = 4
  /\ calls[1].out[2] = AZ("zone5", "cnn1-az4")
  /\ Len(retZones.val) = 3

\* C5 as stated: with 2 or 3 zones left after filtering, all of them are returned
C5_Original ==
  (SelectZonesDone /\ ZoneQueryOk /\ Len(KeptNames(region, calls[1].out)) \in {2, 3}) =>
    /\ retErr = NoErr
    /\ Len(retZones.val) = Len(KeptNames(region, calls[1].out))
    /\ Range(retZones.val) = Range(KeptNames(region, calls[1].out))

\* C5 (amended): with exactly 2 zones left after filtering GetAvailabilityZones
\* returns both, in the order of the source; with exactly 3 it returns all
\* three (in the order of a random permutation) in every region but
\* us-east-1, where it returns 2 distinct zones of the 3.
C5_AllOfTwoOrThree ==
  (SelectZonesDone /\ ZoneQueryOk) =>
    LET kept == KeptNames(region, calls[1].out) IN
      /\ Len(kept) = 2 =>
           /\ retErr = NoErr
           /\ retZones = Strings(kept)
           /\ permCount = 0
      /\ (Len(kept) = 3 /\ region # RegionUSEast1) =>
           /\ retErr = NoErr
           /\ Len(retZones.val) = 3
           /\ Range(retZones.val) = Range(kept)
      /\ (Len(kept) = 3 /\ region = RegionUSEast1) =>
           /\ retErr = NoErr
           /\ Len(retZones.val) = 2
           /\ NoRepeats(retZones.val)
           /\ Range(retZones.val) \subseteq Range(kept)

C5_Witness ==
  /\ SelectZonesDone
  /\ ZoneQueryOk
  /\ region = "us-west-1"
  /\ KeptNames(region, calls[1].out) = <<"zone1", "zone2", "zone3">>
  /\ retZones.val = <<"zone3", "zone1", "zone2">>

\* C6: with at least 3 zones left after filtering, GetAvailabilityZones returns
\* exactly 2 zones in us-east-1 and exactly 3 in any other region, no zone
\* twice, each one of the filtered zones.
C6_ExactlyKDistinct ==
  (SelectZonesDone /\ ZoneQueryOk
     /\ Len(KeptNames(region, calls[1].out)) >= RecommendedAvailabilityZones) =>
    /\ retErr = NoErr
    /\ ~retZones.isNil
    /\ Len(retZones.val) = (IF region = "us-east-1" THEN 2 ELSE 3)
    /\ NoRepeats(retZones.val)
    /\ Range(retZones.val) \subseteq Range(KeptNames(region, calls[1].out))

C6_Witness ==
  /\ SelectZonesDone
  /\ ZoneQueryOk
  /\ region = "us-east-1"
  /\ Len(KeptNames(region, calls[1].out)) = 4
  /\ Len(retZones.val) = 2

\* C7: with fewer than 2 zones left after filtering (none included),
\* GetAvailabilityZones returns a nil list and an error carrying the count, the
\* filtered names and the minimum 2; a successful result never has fewer than
\* 2 zones.
C7_TooFewZones ==
  /\ (SelectZonesDone /\ ZoneQueryOk /\ Len(KeptNames(region, calls[1].out)) < 2) =>
       /\ retZones = NilStrings
       /\ retErr = [kind |-> "tooFewZones",
                    discovered |-> Len(KeptNames(region, calls[1].out)),
                    zones |-> KeptNames(region, calls[1].out),
                    required |-> 2]
  /\ (SelectZonesDone /\ retErr = NoErr) =>
       /\ ~retZones.isNil
       /\ Len(retZones.val) >= 2

C7_Witness ==
  /\ SelectZonesDone
  /\ region = RegionCNNorth1
  /\ Len(calls[1].out) = 2
  /\ retZones.isNil
  /\ retErr.kind = "tooFewZones"
  /\ retErr.discovered = 1

\* C8: when the describe call of SetLocalZones fails, the error returned wraps
\* the cause and names the requested zones, and the caller's config is as it
\* was before the call.
C8_LocalZoneQueryFails ==
  (LocalZonesDone /\ ZoneQueryFailed) =>
    /\ retErr.kind = "localZoneError"
    /\ retErr.cause = calls[1].err
    /\ retErr.zones = cfgIn.LocalZones
    /\ calls[1].ZoneNames = cfgIn.LocalZones
    /\ cfg = cfgIn

C8_Witness ==
  /\ LocalZonesDone
  /\ ZoneQueryFailed
  /\ Len(cfgIn.LocalZones) = 2
  /\ cfg.LocalZones = cfgIn.LocalZones
  /\ retErr # NoErr

\* C9: SetLocalZones with no requested local zone succeeds, makes no describe
\* call and leaves every field of the caller's config as it was.
C9_EmptyIsNoOp ==
  (LocalZonesDone /\ Len(cfgIn.LocalZones) = 0) =>
    /\ calls = <<>>
    /\ retErr = NoErr
    /\ cfg = cfgIn

C9_Witness ==
  /\ LocalZonesDone
  /\ cfgIn = ClusterConfig(<<>>, "vpc-1")
  /\ cfg = cfgIn
  /\ calls = <<>>

C11_ResultXorError ==
  /\ (opName = "Get" /\ pc = "done") =>
       /\ \/ retErr = NoErr /\ ~retSummary.isNil /\ Len(retSummary.val) = 1
          \/ retErr # NoErr /\ retSummary = NilSummary
       /\ calls[Len(calls)].err # NoErr =>
            /\ retSummary = NilSummary
            /\ retErr = calls[Len(calls)].err
  /\ SelectZonesDone =>
       /\ \/ retErr = NoErr /\ ~retZones.isNil /\ Len(retZones.val) > 0
          \/ retErr # NoErr /\ retZones = NilStrings
       /\ ZoneQueryFailed =>
            /\ retZones = NilStrings
            /\ retErr.kind = "getAZError"
            /\ retErr.cause = calls[1].err
            /\ retErr.region = region
       /\ (ZoneQueryOk /\ Len(KeptNames(region, calls[1].out)) < 2) =>
            /\ retZones = NilStrings
            /\ retErr # NoErr

C11_Witness ==
  /\ SelectZonesDone
  /\ ZoneQueryFailed
  /\ region = "us-west-1"
  /\ retZones = NilStrings
  /\ retErr.kind = "getAZError"
  /\ retErr.cause = [kind |-> "chain", chain |-> <<"foo">>]

\* randomSelectionOfZones is running
Selecting == pc \in {"randomSelectionOfZones", "range"}
C12_State ==
  opName = "GetAvailabilityZones" =>
    /\ Len(calls) = 1
    /\ permCount <= 1
    /\ Selecting =>
         /\ calls[1].err = NoErr
         /\ Len(availableZones) >= RecommendedAvailabilityZones
         /\ Len(availableZones) >= desiredNumberOfAZs
    /\ permCount = 1 =>
         /\ Len(zones) <= Len(perm)
         /\ \A i \in 1..Len(zones) : zones[i] = availableZones[perm[i]]

\* C12: GetAvailabilityZones makes one describe call and then returns: the
\* selection loop is entered only with at least 3 filtered zones, draws one
\* permutation, takes its zones from the front of that permutation only, and
\* ends.
C12_SelectionTerminates ==
  /\ []C12_State
  /\ (opName = "GetAvailabilityZones") ~> (opName = "GetAvailabilityZones" /\ pc = "done")

C12_Witness ==
  /\ SelectZonesDone
  /\ region = "us-west-1"
  /\ permCount = 1
  /\ Len(availableZones) = 4
  /\ perm = <<4, 2, 1, 3>>
  /\ retZones = Strings(<<"zone4", "zone2", "zone1">>)

====
